---- MODULE Spec2Model ----
(***************************************************************************)
(* Model of pkg/client/client.go (Client, New, newConnection, the options  *)
(* and the sync.Once guarded service accessors) and of the standalone      *)
(* settings v2beta NewClient.                                              *)
(*                                                                         *)
(* Two specifications share the variables:                                 *)
(*   SpecNew : one execution of New and one of NewClient, inputs drawn in   *)
(*             InitNew;                                                    *)
(*   Spec    : concurrent accessor calls on a Client that New returned.    *)
(***************************************************************************)
EXTENDS Naturals, Sequences, FiniteSets, TLC

\* ------------------------------------------------------------ bounds
MaxOpts == 2        \* number of Option values passed to New
MaxDialOpts == 2    \* number of grpc.DialOption values in one WithGRPCDialOptions
NumCallers == 2     \* goroutines calling accessors on one Client
MaxCalls == 2       \* accessor calls made by one goroutine
NumAccessed == 2    \* how many of the 14 accessors the goroutines call
MaxRpcs == 2        \* outbound calls issued over the connection

\* ------------------------------------------------------------ values
Nil == "nil"

\* The 14 fields of clientOnce / Client, in declaration order.
ServiceFields ==
  << "systemService", "adminService", "managementService", "userService",
     "userServiceV2", "authService", "settingsService", "settingsServiceV2",
     "sessionService", "sessionServiceV2", "organizationService",
     "organizationServiceV2", "oidcService", "oidcServiceV2" >>

Services == { ServiceFields[k] : k \in 1..Len(ServiceFields) }

\* The accessors the goroutines of the model call (the 14 are alike).
Accessed ==
  { ServiceFields[k] : k \in 1..(IF NumAccessed < Len(ServiceFields)
                                  THEN NumAccessed ELSE Len(ServiceFields)) }

Callers == 1..NumCallers
NoCaller == 0

\* Caller supplied grpc.DialOption values (opaque to the client).
UserDialOptions == { "optA", "optB" }

\* TokenSourceInitializer values a caller can hand to WithAuth: two that
\* succeed (each with its own token source), one that fails, and nil.
Initializers == { "PAT", "JWT", "Failing" }

InitializerErr(init) == init = "Failing"
InitializerSource(init) == IF init = "PAT" THEN "ts-PAT" ELSE "ts-JWT"

RECURSIVE SeqsUpTo(_, _)
SeqsUpTo(S, n) ==
  IF n = 0 THEN { <<>> }
  ELSE LET shorter == SeqsUpTo(S, n - 1)
       IN  shorter \cup { Append(q, x) : q \in shorter, x \in S }

DialOption(kind, creds, tls, tokenSource, id) ==
  [kind |-> kind, creds |-> creds, tls |-> tls, tokenSource |-> tokenSource, id |-> id]

UserOption(id) == DialOption("user", Nil, FALSE, Nil, id)

UserOptionLists == SeqsUpTo({ UserOption(id) : id \in UserDialOptions }, MaxDialOpts)

\* ------------------------------------------------------------ options
\* An Option is a closure over its argument; applying it mutates *clientOptions.
WithAuth(initTokenSource) ==
  [kind |-> "WithAuth", initTokenSource |-> initTokenSource, opts |-> <<>>]

WithGRPCDialOptions(opts) ==
  [kind |-> "WithGRPCDialOptions", initTokenSource |-> Nil, opts |-> opts]

OptionValues ==
  { WithAuth(i) : i \in Initializers \cup {Nil} }
    \cup { WithGRPCDialOptions(l) : l \in UserOptionLists }

\* var options clientOptions
ZeroOptions == [initTokenSource |-> Nil, grpcDialOptions |-> <<>>]

\* c.initTokenSource = initTokenSource
ApplyWithAuth(o, c) == [c EXCEPT !.initTokenSource = o.initTokenSource]

\* Variant of ApplyWithGRPCDialOptions: a later use replaces the earlier list.
ApplyWithGRPCDialOptions_Replaces(o, c) == [c EXCEPT !.grpcDialOptions = o.opts]

\* c.grpcDialOptions = append(c.grpcDialOptions, opts...)
ApplyWithGRPCDialOptions(o, c) ==
  [c EXCEPT !.grpcDialOptions = c.grpcDialOptions \o o.opts]

\* o(&options)
ApplyOption(o, c) ==
  IF o.kind = "WithAuth" THEN ApplyWithAuth(o, c) ELSE ApplyWithGRPCDialOptions(o, c)

\* ------------------------------------------------------------ state
VARIABLES
  \* inputs of New
  zitadel,      \* [tls, insecureSkipVerify] of the *zitadel.Zitadel argument
  opts,         \* the opts ...Option argument
  \* locals of New / newConnection
  newPC,        \* position of New
  i,            \* index of the next option of the range loop
  options,      \* clientOptions
  source,       \* oauth2.TokenSource (Nil when absent)
  dialOptions,  \* the list handed to grpc.DialContext (<<>> before the dial)
  conn,         \* *grpc.ClientConn returned by newConnection
  err,          \* error in flight
  result,       \* what New returned: [client, err]
  \* observations of the environment
  initCalls,    \* initializers invoked so far, in order
  dialCalls,    \* number of grpc.DialContext calls
  openConns,    \* connections the dial opened
  \* the standalone settings client
  ncPC,         \* position of NewClient
  ncConn,       \* *zitadel.Connection
  ncResult,     \* what NewClient returned: [client, stub, err]
  ncBuilt,      \* settings stubs NewClient constructed
  \* the Client
  connection,   \* Client.connection
  once,         \* Client.once: per service [done, m] (m = holder of the mutex)
  stubs,        \* the 14 stub fields of Client
  built,        \* per service: number of stub constructor executions
  \* callers of the accessors
  pc,           \* per caller: position inside the accessor
  svc,          \* per caller: the accessor it is in
  calls,        \* per caller: accessor calls started
  returned,     \* per service: every value an accessor call of it returned
  \* outbound calls over the connection
  rpc,          \* per call: [state, authorization, afterFail]
  tokenOK       \* whether the token source can produce a token right now

newVars == << zitadel, opts, newPC, i, options, source, dialOptions, conn, err,
              result, initCalls, dialCalls, openConns >>
ncVars == << ncPC, ncConn, ncResult, ncBuilt >>
clientVars == << connection, once, stubs, built >>
callerVars == << pc, svc, calls, returned >>
rpcVars == << rpc, tokenOK >>
vars == << newVars, ncVars, clientVars, callerVars, rpcVars >>

\* A stub is the generated client struct wrapping cc; n tells instances apart.
Stub(service, cc, n) == [service |-> service, cc |-> cc, n |-> n]
NilStub == Stub(Nil, Nil, 0)

ZeroOnce == [done |-> FALSE, m |-> NoCaller]

\* &Client{connection: conn}: every other field has its zero value.
InitClient(c) ==
  /\ connection = c
  /\ once = [s \in Services |-> ZeroOnce]
  /\ stubs = [s \in Services |-> NilStub]
  /\ built = [s \in Services |-> 0]

InitCallers ==
  /\ pc = [t \in Callers |-> "idle"]
  /\ svc = [t \in Callers |-> Nil]
  /\ calls = [t \in Callers |-> 0]
  /\ returned = [s \in Services |-> {}]

Rpcs == 1..MaxRpcs

\* No outbound call has been issued; authorization <<>> is "no header".
NoRpc == [state |-> "idle", authorization |-> <<>>, afterFail |-> FALSE]

InitRpcs ==
  /\ rpc = [k \in Rpcs |-> NoRpc]
  /\ tokenOK = TRUE

InitNewClient ==
  /\ ncPC = "NewConnection"
  /\ ncConn = Nil
  /\ ncResult = [client |-> Nil, stub |-> NilStub, err |-> Nil]
  /\ ncBuilt = 0

\* ------------------------------------------------------------ New
\* transportCredentials(domain, tls, insecureSkipVerify): plaintext without
\* TLS, TLS with validation, or TLS without validation under skip-verify.
transportCredentials(tls, insecureSkipVerify) ==
  IF ~tls THEN "insecure"
  ELSE IF insecureSkipVerify THEN "tls-skip-verify" ELSE "tls"

\* Variant of NewCred: the TLS requirement follows the token source.
NewCred_TLSFromToken(tls, tokenSource) ==
  [tls |-> tokenSource # Nil, tokenSource |-> tokenSource]

\* &cred{tls: zitadel.IsTLS(), tokenSource: tokenSource}
NewCred(tls, tokenSource) == [tls |-> tls, tokenSource |-> tokenSource]

\* (*cred).RequireTransportSecurity
RequireTransportSecurity(c) == c.tls

\* grpc.WithTransportCredentials(transportCreds)
WithTransportCredentials(creds) ==
  DialOption("TransportCredentials", creds, FALSE, Nil, Nil)

\* grpc.WithPerRPCCredentials(c)
WithPerRPCCredentials(c) ==
  DialOption("PerRPCCredentials", Nil, c.tls, c.tokenSource, Nil)

\* The cred a per-RPC dial option carries.
CredOf(d) == [tls |-> d.tls, tokenSource |-> d.tokenSource]

\* Variant of BuildDialOptions: the token source is not handed to the cred.
BuildDialOptions_DropsSource(z, tokenSource, userOpts) ==
  << WithTransportCredentials(transportCredentials(z.tls, z.insecureSkipVerify)),
     WithPerRPCCredentials(NewCred(z.tls, Nil)) >> \o userOpts

\* Variant of BuildDialOptions: the injector is installed only with a token source.
BuildDialOptions_AuthOnly(z, tokenSource, userOpts) ==
  IF tokenSource = Nil
  THEN << WithTransportCredentials(transportCredentials(z.tls, z.insecureSkipVerify)) >>
         \o userOpts
  ELSE << WithTransportCredentials(transportCredentials(z.tls, z.insecureSkipVerify)),
          WithPerRPCCredentials(NewCred(z.tls, tokenSource)) >> \o userOpts

\* Variant of BuildDialOptions: the caller's options come before the built-in ones.
BuildDialOptions_UserFirst(z, tokenSource, userOpts) ==
  userOpts \o
  << WithTransportCredentials(transportCredentials(z.tls, z.insecureSkipVerify)),
     WithPerRPCCredentials(NewCred(z.tls, tokenSource)) >>

\* dialOptions := []grpc.DialOption{...}; dialOptions = append(dialOptions, opts...)
BuildDialOptions(z, tokenSource, userOpts) ==
  << WithTransportCredentials(transportCredentials(z.tls, z.insecureSkipVerify)),
     WithPerRPCCredentials(NewCred(z.tls, tokenSource)) >> \o userOpts

NoResult == [client |-> Nil, err |-> Nil]

InitNew ==
  /\ zitadel \in [tls : BOOLEAN, insecureSkipVerify : BOOLEAN]
  /\ opts \in SeqsUpTo(OptionValues, MaxOpts)
  /\ newPC = "range"
  /\ i = 1
  /\ options = ZeroOptions
  /\ source = Nil
  /\ dialOptions = <<>>
  /\ conn = Nil
  /\ err = Nil
  /\ result = NoResult
  /\ initCalls = <<>>
  /\ dialCalls = 0
  /\ openConns = {}
  /\ InitNewClient
  /\ InitClient(Nil)
  /\ InitCallers
  /\ InitRpcs

\* for _, o := range opts { o(&options) }
RangeOpts ==
  /\ newPC = "range"
  /\ i <= Len(opts)
  /\ options' = ApplyOption(opts[i], options)
  /\ i' = i + 1
  /\ UNCHANGED << zitadel, opts, newPC, source, dialOptions, conn, err, result,
                  initCalls, dialCalls, openConns >>
  /\ UNCHANGED << ncVars, clientVars, callerVars >>
  /\ UNCHANGED rpcVars

\* Variant of InitTokenSource: the token source the initializer returns is
\* not kept.
InitTokenSource_DropsSource ==
  /\ newPC = "range"
  /\ i > Len(opts)
  /\ IF options.initTokenSource # Nil
     THEN /\ initCalls' = Append(initCalls, options.initTokenSource)
          /\ IF InitializerErr(options.initTokenSource)
             THEN /\ err' = "initTokenSource failed"
                  /\ result' = [client |-> Nil, err |-> "initTokenSource failed"]
                  /\ newPC' = "returned"
             ELSE /\ newPC' = "newConnection"
                  /\ UNCHANGED << err, result >>
     ELSE /\ newPC' = "newConnection"
          /\ UNCHANGED << initCalls, err, result >>
  /\ UNCHANGED source
  /\ UNCHANGED << zitadel, opts, i, options, dialOptions, conn, dialCalls, openConns >>
  /\ UNCHANGED << ncVars, clientVars, callerVars >>
  /\ UNCHANGED rpcVars

\* Variant of InitTokenSource: the initializer's error is not checked.
InitTokenSource_IgnoresErr ==
  /\ newPC = "range"
  /\ i > Len(opts)
  /\ IF options.initTokenSource # Nil
     THEN /\ initCalls' = Append(initCalls, options.initTokenSource)
          /\ source' = IF InitializerErr(options.initTokenSource)
                       THEN Nil ELSE InitializerSource(options.initTokenSource)
     ELSE UNCHANGED << initCalls, source >>
  /\ newPC' = "newConnection"
  /\ UNCHANGED << err, result >>
  /\ UNCHANGED << zitadel, opts, i, options, dialOptions, conn, dialCalls, openConns >>
  /\ UNCHANGED << ncVars, clientVars, callerVars >>
  /\ UNCHANGED rpcVars

\* if options.initTokenSource != nil { source, err = ...; if err != nil { return nil, err } }
InitTokenSource ==
  /\ newPC = "range"
  /\ i > Len(opts)
  /\ IF options.initTokenSource # Nil
     THEN /\ initCalls' = Append(initCalls, options.initTokenSource)
          /\ IF InitializerErr(options.initTokenSource)
             THEN /\ err' = "initTokenSource failed"
                  /\ result' = [client |-> Nil, err |-> "initTokenSource failed"]
                  /\ newPC' = "returned"
                  /\ UNCHANGED source
             ELSE /\ source' = InitializerSource(options.initTokenSource)
                  /\ newPC' = "newConnection"
                  /\ UNCHANGED << err, result >>
     ELSE /\ newPC' = "newConnection"
          /\ UNCHANGED << initCalls, source, err, result >>
  /\ UNCHANGED << zitadel, opts, i, options, dialOptions, conn, dialCalls, openConns >>
  /\ UNCHANGED << ncVars, clientVars, callerVars >>
  /\ UNCHANGED rpcVars

\* newConnection up to the dial: transportCredentials may fail; otherwise
\* the dial option list is assembled.
NewConnectionOptions ==
  /\ newPC = "newConnection"
  /\ \E ok \in BOOLEAN :
       IF ok
       THEN /\ dialOptions' = BuildDialOptions(zitadel, source, options.grpcDialOptions)
            /\ newPC' = "dial"
            /\ UNCHANGED err
       ELSE /\ err' = "transportCredentials failed"
            /\ newPC' = "connReturned"
            /\ UNCHANGED dialOptions
  /\ UNCHANGED << zitadel, opts, i, options, source, conn, result,
                  initCalls, dialCalls, openConns >>
  /\ UNCHANGED << ncVars, clientVars, callerVars >>
  /\ UNCHANGED rpcVars

\* return grpc.DialContext(ctx, zitadel.Host(), dialOptions...)
Dial ==
  /\ newPC = "dial"
  /\ dialCalls' = dialCalls + 1
  /\ \E ok \in BOOLEAN :
       IF ok
       THEN /\ conn' = "conn"
            /\ openConns' = openConns \cup { "conn" }
            /\ UNCHANGED err
       ELSE /\ err' = "dial failed"
            /\ UNCHANGED << conn, openConns >>
  /\ newPC' = "connReturned"
  /\ UNCHANGED << zitadel, opts, i, options, source, dialOptions, result, initCalls >>
  /\ UNCHANGED << ncVars, clientVars, callerVars >>
  /\ UNCHANGED rpcVars

\* Variant of NewReturn: New constructs every stub itself, as NewClient does.
NewReturn_Eager ==
  /\ newPC = "connReturned"
  /\ IF err # Nil
     THEN /\ result' = [client |-> Nil, err |-> err]
          /\ UNCHANGED << connection, stubs, built >>
     ELSE /\ result' = [client |-> "client", err |-> Nil]
          /\ connection' = conn
          /\ stubs' = [s \in Services |-> Stub(s, conn, 1)]
          /\ built' = [s \in Services |-> 1]
  /\ newPC' = "returned"
  /\ UNCHANGED << zitadel, opts, i, options, source, dialOptions, conn, err,
                  initCalls, dialCalls, openConns >>
  /\ UNCHANGED once
  /\ UNCHANGED << ncVars, callerVars >>
  /\ UNCHANGED rpcVars

\* Variant of NewReturn: a Client is returned along with the error.
NewReturn_ClientOnErr ==
  /\ newPC = "connReturned"
  /\ result' = [client |-> "client", err |-> err]
  /\ connection' = conn
  /\ newPC' = "returned"
  /\ UNCHANGED << zitadel, opts, i, options, source, dialOptions, conn, err,
                  initCalls, dialCalls, openConns >>
  /\ UNCHANGED << once, stubs, built >>
  /\ UNCHANGED << ncVars, callerVars >>
  /\ UNCHANGED rpcVars

\* Variant of NewReturn: the error of newConnection is not checked.
NewReturn_IgnoresErr ==
  /\ newPC = "connReturned"
  /\ result' = [client |-> "client", err |-> Nil]
  /\ connection' = conn
  /\ newPC' = "returned"
  /\ UNCHANGED << zitadel, opts, i, options, source, dialOptions, conn, err,
                  initCalls, dialCalls, openConns >>
  /\ UNCHANGED << once, stubs, built >>
  /\ UNCHANGED << ncVars, callerVars >>
  /\ UNCHANGED rpcVars

\* conn, err := newConnection(...); if err != nil { return nil, err }
\* return &Client{connection: conn}, nil
NewReturn ==
  /\ newPC = "connReturned"
  /\ IF err # Nil
     THEN /\ result' = [client |-> Nil, err |-> err]
          /\ UNCHANGED connection
     ELSE /\ result' = [client |-> "client", err |-> Nil]
          /\ connection' = conn
  /\ newPC' = "returned"
  /\ UNCHANGED << zitadel, opts, i, options, source, dialOptions, conn, err,
                  initCalls, dialCalls, openConns >>
  /\ UNCHANGED << once, stubs, built >>
  /\ UNCHANGED << ncVars, callerVars >>
  /\ UNCHANGED rpcVars

\* ------------------------------------------------------------ NewClient
\* conn, err := zitadel.NewConnection(ctx, issuer, api, scopes, options...)
NewConnection ==
  /\ ncPC = "NewConnection"
  /\ \E ok \in BOOLEAN :
       ncConn' = IF ok THEN "apiConn" ELSE "NewConnection failed"
  /\ ncPC' = "checkErr"
  /\ UNCHANGED << ncResult, ncBuilt >>
  /\ UNCHANGED << newVars, clientVars, callerVars >>
  /\ UNCHANGED rpcVars

\* if err != nil { return nil, err }; return &Client{Connection: conn,
\* SettingsServiceClient: settings.NewSettingsServiceClient(conn.ClientConn)}, nil
NewClientReturn ==
  /\ ncPC = "checkErr"
  /\ IF ncConn = "NewConnection failed"
     THEN /\ ncResult' = [client |-> Nil, stub |-> NilStub, err |-> ncConn]
          /\ UNCHANGED ncBuilt
     ELSE /\ ncBuilt' = ncBuilt + 1
          /\ ncResult' = [client |-> "settingsClient",
                          stub |-> Stub("settingsService", ncConn, ncBuilt + 1),
                          err |-> Nil]
  /\ ncPC' = "returned"
  /\ UNCHANGED ncConn
  /\ UNCHANGED << newVars, clientVars, callerVars >>
  /\ UNCHANGED rpcVars

NextNew ==
  \/ RangeOpts
  \/ InitTokenSource
  \/ NewConnectionOptions
  \/ Dial
  \/ NewReturn
  \/ NewConnection
  \/ NewClientReturn

SpecNew == InitNew /\ [][NextNew]_vars

\* ------------------------------------------------------------ accessors
\* The state New leaves behind when it returns a client: the Client holds the
\* dialed connection, every Once is unused and every stub field is nil.
Init ==
  /\ zitadel = [tls |-> TRUE, insecureSkipVerify |-> FALSE]
  /\ opts = <<>>
  /\ newPC = "returned"
  /\ i = 1
  /\ options = ZeroOptions
  /\ source = Nil
  /\ dialOptions = BuildDialOptions(zitadel, Nil, <<>>)
  /\ conn = "conn"
  /\ err = Nil
  /\ result = [client |-> "client", err |-> Nil]
  /\ initCalls = <<>>
  /\ dialCalls = 1
  /\ openConns = { "conn" }
  /\ InitNewClient
  /\ InitClient("conn")
  /\ InitCallers
  /\ InitRpcs

\* A goroutine calls the accessor of service s: func (c *Client) XService().
Call(t, s) ==
  /\ pc[t] = "idle"
  /\ calls[t] < MaxCalls
  /\ svc' = [svc EXCEPT ![t] = s]
  /\ calls' = [calls EXCEPT ![t] = @ + 1]
  /\ pc' = [pc EXCEPT ![t] = "Do"]
  /\ UNCHANGED returned
  /\ UNCHANGED << newVars, ncVars, clientVars >>
  /\ UNCHANGED rpcVars

\* Variant of OnceDo: a caller that finds the guard taken does not wait.
OnceDo_NoWait(t) ==
  /\ pc[t] = "Do"
  /\ pc' = [pc EXCEPT ![t] = IF once[svc[t]].done \/ once[svc[t]].m # NoCaller
                              THEN "return" ELSE "doSlow"]
  /\ UNCHANGED << svc, calls, returned >>
  /\ UNCHANGED << newVars, ncVars, clientVars >>
  /\ UNCHANGED rpcVars

\* c.once.x.Do(f): if o.done.Load() == 0 { o.doSlow(f) }
OnceDo(t) ==
  /\ pc[t] = "Do"
  /\ pc' = [pc EXCEPT ![t] = IF once[svc[t]].done THEN "return" ELSE "doSlow"]
  /\ UNCHANGED << svc, calls, returned >>
  /\ UNCHANGED << newVars, ncVars, clientVars >>
  /\ UNCHANGED rpcVars

\* Variant of OnceLock: one mutex guards all 14 slots.
OnceLock_SharedGuard(t) ==
  /\ pc[t] = "doSlow"
  /\ \A s \in Services : once[s].m = NoCaller
  /\ once' = [once EXCEPT ![svc[t]].m = t]
  /\ pc' = [pc EXCEPT ![t] = "locked"]
  /\ UNCHANGED << connection, stubs, built >>
  /\ UNCHANGED << svc, calls, returned >>
  /\ UNCHANGED << newVars, ncVars >>
  /\ UNCHANGED rpcVars

\* doSlow: o.m.Lock(), which waits while another goroutine holds the mutex
\* of this Once.
OnceLock(t) ==
  /\ pc[t] = "doSlow"
  /\ once[svc[t]].m = NoCaller
  /\ once' = [once EXCEPT ![svc[t]].m = t]
  /\ pc' = [pc EXCEPT ![t] = "locked"]
  /\ UNCHANGED << connection, stubs, built >>
  /\ UNCHANGED << svc, calls, returned >>
  /\ UNCHANGED << newVars, ncVars >>
  /\ UNCHANGED rpcVars

\* Variant of OnceCheck: done is not read again under the mutex.
OnceCheck_NoRecheck(t) ==
  /\ pc[t] = "locked"
  /\ pc' = [pc EXCEPT ![t] = "f"]
  /\ UNCHANGED << svc, calls, returned >>
  /\ UNCHANGED << newVars, ncVars, clientVars >>
  /\ UNCHANGED rpcVars

\* doSlow: if o.done.Load() == 0 { defer o.done.Store(1); f() }
OnceCheck(t) ==
  /\ pc[t] = "locked"
  /\ pc' = [pc EXCEPT ![t] = IF once[svc[t]].done THEN "unlock" ELSE "f"]
  /\ UNCHANGED << svc, calls, returned >>
  /\ UNCHANGED << newVars, ncVars, clientVars >>
  /\ UNCHANGED rpcVars

\* f: the stub constructor runs, x.NewXServiceClient(c.connection)
Construct(t) ==
  /\ pc[t] = "f"
  /\ built' = [built EXCEPT ![svc[t]] = @ + 1]
  /\ pc' = [pc EXCEPT ![t] = "assign"]
  /\ UNCHANGED << connection, once, stubs >>
  /\ UNCHANGED << svc, calls, returned >>
  /\ UNCHANGED << newVars, ncVars >>
  /\ UNCHANGED rpcVars

\* The field declared after field s in Client (the first one after the last).
FieldAfter(s) ==
  LET k == CHOOSE n \in 1..Len(ServiceFields) : ServiceFields[n] = s
  IN  ServiceFields[(k % Len(ServiceFields)) + 1]

\* Variant of Assign: the accessor writes the stub to the neighbouring field.
Assign_WrongField(t) ==
  /\ pc[t] = "assign"
  /\ stubs' = [stubs EXCEPT ![FieldAfter(svc[t])] =
                              Stub(svc[t], connection, built[svc[t]])]
  /\ pc' = [pc EXCEPT ![t] = "storeDone"]
  /\ UNCHANGED << connection, once, built >>
  /\ UNCHANGED << svc, calls, returned >>
  /\ UNCHANGED << newVars, ncVars >>
  /\ UNCHANGED rpcVars

\* f: c.xService = <the constructed stub>
Assign(t) ==
  /\ pc[t] = "assign"
  /\ stubs' = [stubs EXCEPT ![svc[t]] = Stub(svc[t], connection, built[svc[t]])]
  /\ pc' = [pc EXCEPT ![t] = "storeDone"]
  /\ UNCHANGED << connection, once, built >>
  /\ UNCHANGED << svc, calls, returned >>
  /\ UNCHANGED << newVars, ncVars >>
  /\ UNCHANGED rpcVars

\* Variant of StoreDone: done is never stored.
StoreDone_Forgets(t) ==
  /\ pc[t] = "storeDone"
  /\ pc' = [pc EXCEPT ![t] = "unlock"]
  /\ UNCHANGED << svc, calls, returned >>
  /\ UNCHANGED << newVars, ncVars, clientVars >>
  /\ UNCHANGED rpcVars

\* doSlow: the deferred o.done.Store(1), after f returned
StoreDone(t) ==
  /\ pc[t] = "storeDone"
  /\ once' = [once EXCEPT ![svc[t]].done = TRUE]
  /\ pc' = [pc EXCEPT ![t] = "unlock"]
  /\ UNCHANGED << connection, stubs, built >>
  /\ UNCHANGED << svc, calls, returned >>
  /\ UNCHANGED << newVars, ncVars >>
  /\ UNCHANGED rpcVars

\* Variant of OnceUnlock: the mutex is not released.
OnceUnlock_KeepsMutex(t) ==
  /\ pc[t] = "unlock"
  /\ pc' = [pc EXCEPT ![t] = "return"]
  /\ UNCHANGED << svc, calls, returned >>
  /\ UNCHANGED << newVars, ncVars, clientVars >>
  /\ UNCHANGED rpcVars

\* doSlow: the deferred o.m.Unlock()
OnceUnlock(t) ==
  /\ pc[t] = "unlock"
  /\ once' = [once EXCEPT ![svc[t]].m = NoCaller]
  /\ pc' = [pc EXCEPT ![t] = "return"]
  /\ UNCHANGED << connection, stubs, built >>
  /\ UNCHANGED << svc, calls, returned >>
  /\ UNCHANGED << newVars, ncVars >>
  /\ UNCHANGED rpcVars

\* return c.xService
Return(t) ==
  /\ pc[t] = "return"
  /\ returned' = [returned EXCEPT ![svc[t]] = @ \cup { stubs[svc[t]] }]
  /\ svc' = [svc EXCEPT ![t] = Nil]
  /\ pc' = [pc EXCEPT ![t] = "idle"]
  /\ UNCHANGED calls
  /\ UNCHANGED << newVars, ncVars, clientVars >>
  /\ UNCHANGED rpcVars

\* One step of goroutine t inside an accessor.
Step(t) ==
  \/ OnceDo(t)
  \/ OnceLock(t)
  \/ OnceCheck(t)
  \/ Construct(t)
  \/ Assign(t)
  \/ StoreDone(t)
  \/ OnceUnlock(t)
  \/ Return(t)

Next ==
  \/ \E t \in Callers, s \in Accessed : Call(t, s)
  \/ \E t \in Callers : Step(t)

Spec == Init /\ [][Next]_vars

\* Every goroutine that can take a step of its accessor call eventually takes
\* one: the scheduler runs every runnable goroutine, and a goroutine waiting
\* for a mutex gets it once it stays free.
SpecFair == Spec /\ \A t \in Callers : WF_vars(Step(t))

\* ------------------------------------------------------------ failing constructor
\* The stub constructors generated for this client cannot fail. The steps
\* below are those of an accessor whose constructor does fail, which in Go
\* means that the function passed to Do panics: the deferred calls of doSlow
\* run while the panic unwinds, and the panic leaves the accessor.

\* f: the stub constructor fails.
ConstructPanics(t) ==
  /\ pc[t] = "f"
  /\ built' = [built EXCEPT ![svc[t]] = @ + 1]
  /\ pc' = [pc EXCEPT ![t] = "panicking"]
  /\ UNCHANGED << connection, once, stubs >>
  /\ UNCHANGED << svc, calls, returned >>
  /\ UNCHANGED << newVars, ncVars >>
  /\ UNCHANGED rpcVars

\* doSlow: the deferred o.done.Store(1) runs although f did not return.
PanicStoreDone(t) ==
  /\ pc[t] = "panicking"
  /\ once' = [once EXCEPT ![svc[t]].done = TRUE]
  /\ pc' = [pc EXCEPT ![t] = "panicUnlock"]
  /\ UNCHANGED << connection, stubs, built >>
  /\ UNCHANGED << svc, calls, returned >>
  /\ UNCHANGED << newVars, ncVars >>
  /\ UNCHANGED rpcVars

\* doSlow: the deferred o.m.Unlock() runs.
PanicUnlock(t) ==
  /\ pc[t] = "panicUnlock"
  /\ once' = [once EXCEPT ![svc[t]].m = NoCaller]
  /\ pc' = [pc EXCEPT ![t] = "panicked"]
  /\ UNCHANGED << connection, stubs, built >>
  /\ UNCHANGED << svc, calls, returned >>
  /\ UNCHANGED << newVars, ncVars >>
  /\ UNCHANGED rpcVars

\* The panic leaves the accessor: the call returns nothing, and the goroutine
\* that recovers from it goes on.
PanicSurfaces(t) ==
  /\ pc[t] = "panicked"
  /\ svc' = [svc EXCEPT ![t] = Nil]
  /\ pc' = [pc EXCEPT ![t] = "idle"]
  /\ UNCHANGED << calls, returned >>
  /\ UNCHANGED << newVars, ncVars, clientVars >>
  /\ UNCHANGED rpcVars

NextFail ==
  \/ Next
  \/ \E t \in Callers : ConstructPanics(t)
  \/ \E t \in Callers : PanicStoreDone(t)
  \/ \E t \in Callers : PanicUnlock(t)
  \/ \E t \in Callers : PanicSurfaces(t)

SpecFail == Init /\ [][NextFail]_vars

\* ------------------------------------------------------------ life of a Client
\* A program whose main goroutine calls New, then NewClient, and then starts
\* the goroutines that call the accessors of the Client New returned (none
\* when New returned no client).
InitLife ==
  /\ InitNew
  /\ zitadel = [tls |-> TRUE, insecureSkipVerify |-> FALSE]
  /\ opts = << WithAuth("PAT") >>

NextLife ==
  \/ RangeOpts
  \/ InitTokenSource
  \/ NewConnectionOptions
  \/ Dial
  \/ NewReturn
  \/ (newPC = "returned" /\ NewConnection)
  \/ (newPC = "returned" /\ NewClientReturn)
  \/ (ncPC = "returned" /\ result.client # Nil
        /\ \E t \in Callers, s \in Accessed : Call(t, s))
  \/ \E t \in Callers : Step(t)

SpecLife == InitLife /\ [][NextLife]_vars

\* ------------------------------------------------------------ outbound calls
\* The token a token source hands out.
TokenOf(tokenSource) == IF tokenSource = "ts-PAT" THEN "tok-PAT" ELSE "tok-JWT"

\* The cred installed on the connection by newConnection.
InstalledCred ==
  CredOf(dialOptions[CHOOSE k \in 1..Len(dialOptions) :
                       dialOptions[k].kind = "PerRPCCredentials"])

\* Variant of GetRequestMetadata: once a token fetch has failed, every later
\* fetch fails as well.
GetRequestMetadata_StickyError(c) ==
  IF c.tokenSource = Nil
  THEN [authorization |-> <<>>, err |-> Nil]
  ELSE IF tokenOK /\ \A j \in Rpcs : rpc[j].state # "failed"
  THEN [authorization |-> << "Bearer", TokenOf(c.tokenSource) >>, err |-> Nil]
  ELSE [authorization |-> <<>>, err |-> "token fetch failed"]

\* (*cred).GetRequestMetadata: no header without a token source; otherwise
\* the current token as a bearer authorization header, or the error of the
\* token fetch.
GetRequestMetadata(c) ==
  IF c.tokenSource = Nil
  THEN [authorization |-> <<>>, err |-> Nil]
  ELSE IF tokenOK
  THEN [authorization |-> << "Bearer", TokenOf(c.tokenSource) >>, err |-> Nil]
  ELSE [authorization |-> <<>>, err |-> "token fetch failed"]

\* A goroutine issues call k through a stub of the Client: the transport is
\* about to ask the installed cred for the metadata of the call.
RpcStart(k) ==
  /\ rpc[k].state = "idle"
  /\ connection # Nil
  /\ rpc' = [rpc EXCEPT ![k] = [state |-> "metadata", authorization |-> <<>>,
                                afterFail |-> \E j \in Rpcs : rpc[j].state = "failed"]]
  /\ UNCHANGED tokenOK
  /\ UNCHANGED << newVars, ncVars, clientVars, callerVars >>

\* The transport calls GetRequestMetadata for call k: the call goes out with
\* the metadata, or fails with the error.
RpcMetadata(k) ==
  /\ rpc[k].state = "metadata"
  /\ LET md == GetRequestMetadata(InstalledCred)
     IN  rpc' = [rpc EXCEPT ![k].state = IF md.err = Nil THEN "sent" ELSE "failed",
                            ![k].authorization = md.authorization]
  /\ UNCHANGED tokenOK
  /\ UNCHANGED << newVars, ncVars, clientVars, callerVars >>

\* The token source starts or stops being able to produce a token (a refresh
\* that fails for a while).
TokenSourceFlips ==
  /\ connection # Nil
  /\ source # Nil
  /\ tokenOK' = ~tokenOK
  /\ UNCHANGED rpc
  /\ UNCHANGED << newVars, ncVars, clientVars, callerVars >>

\* New with at most one WithAuth option, then calls over the connection.
InitRpc ==
  /\ InitNew
  /\ opts \in { <<>> } \cup { << WithAuth(a) >> : a \in Initializers \cup {Nil} }

NextRpc ==
  \/ RangeOpts
  \/ InitTokenSource
  \/ NewConnectionOptions
  \/ Dial
  \/ NewReturn
  \/ \E k \in Rpcs : RpcStart(k)
  \/ \E k \in Rpcs : RpcMetadata(k)
  \/ TokenSourceFlips

SpecRpc == InitRpc /\ [][NextRpc]_vars

\* ------------------------------------------------------------ claims
\* Positions of a goroutine that is running the function passed to Do, up to
\* the store of done.
Constructing == { "f", "assign", "storeDone" }

\* C1: however many goroutines call the accessor of one service before its
\* slot is populated, and however they interleave, the stub constructor of
\* that slot runs exactly once and every call returns the one instance.
C1_SingleConstruction ==
  \A s \in Services :
    /\ built[s] <= 1
    /\ Cardinality({ t \in Callers : svc[t] = s /\ pc[t] \in Constructing }) <= 1
    /\ returned[s] # {} => built[s] = 1 /\ returned[s] = { Stub(s, connection, 1) }

\* Two goroutines raced for one empty slot: one has constructed the stub and
\* stored done, the other had read done = 0 before that and is in doSlow.
C1_Witness ==
  \E t, u \in Callers :
    /\ t # u
    /\ svc[t] = svc[u]
    /\ pc[t] = "unlock" /\ pc[u] = "doSlow"
    /\ calls[t] = 1 /\ calls[u] = 1
    /\ built[svc[t]] = 1

\* C2: no accessor call returns an absent stub; while one goroutine is
\* constructing the stub of a slot, no other call of that accessor is past
\* the guard, and what a call returns is the instance written to the slot.
C2_NeverReturnsAbsent ==
  /\ \A s \in Services : \A x \in returned[s] :
       x # NilStub /\ x = stubs[s] /\ x.service = s /\ x.cc = connection
  /\ \A t \in Callers : pc[t] = "return" =>
       stubs[svc[t]] # NilStub /\ once[svc[t]].done
  /\ \A t, u \in Callers :
       (t # u /\ svc[t] = svc[u] /\ pc[u] \in Constructing)
         => pc[t] \in { "Do", "doSlow" }

\* A goroutine waits in doSlow for the mutex while another one, holding it,
\* has constructed the stub and not yet written the slot.
C2_Witness ==
  \E t, u \in Callers :
    /\ t # u
    /\ svc[t] = svc[u]
    /\ pc[u] = "assign" /\ pc[t] = "doSlow"
    /\ once[svc[t]].m = u
    /\ stubs[svc[t]] = NilStub

\* C3: a goroutine inside the accessor of a service can always take its next
\* step unless it waits for the mutex of that same service, held by a
\* goroutine inside that same accessor: an access to another service, in
\* progress or not, never holds it up.
C3_IndependentServices ==
  \A t \in Callers :
    pc[t] # "idle" =>
      \/ ENABLED Step(t)
      \/ /\ pc[t] = "doSlow"
         /\ \E u \in Callers : u # t /\ svc[u] = svc[t] /\ once[svc[t]].m = u

\* Two goroutines are constructing the stubs of two different services at
\* the same time, each holding the guard of its own service.
C3_Witness ==
  \E t, u \in Callers :
    /\ svc[t] # svc[u]
    /\ pc[t] = "assign" /\ pc[u] = "assign"
    /\ once[svc[t]].m = t /\ once[svc[u]].m = u

\* C4: a slot is constructed at most once, a slot that holds a stub keeps
\* that stub for good, and a call made after that returns the stored stub
\* without another construction.
C4_SlotsNeverReplaced ==
  [][ \A s \in Services :
        /\ built'[s] <= 1
        /\ stubs[s] # NilStub =>
             /\ stubs'[s] = stubs[s]
             /\ built'[s] = built[s]
             /\ returned'[s] \subseteq { stubs[s] } ]_vars

\* A goroutine is about to return from its second call of an accessor whose
\* stored stub an earlier call already returned.
C4_Witness ==
  \E t \in Callers :
    /\ calls[t] = 2
    /\ pc[t] = "return"
    /\ stubs[svc[t]] \in returned[svc[t]]
    /\ built[svc[t]] = 1

\* The options of New have all been applied.
OptionsApplied == newPC # "range" \/ i > Len(opts)

\* The initializer the last WithAuth of a list installs (Nil without one).
RECURSIVE LastAuth(_)
LastAuth(os) ==
  IF os = <<>> THEN Nil
  ELSE IF os[Len(os)].kind = "WithAuth" THEN os[Len(os)].initTokenSource
  ELSE LastAuth(SubSeq(os, 1, Len(os) - 1))

\* The lists of the WithGRPCDialOptions of a list, one after the other.
RECURSIVE Flatten(_)
Flatten(os) ==
  IF os = <<>> THEN <<>>
  ELSE (IF Head(os).kind = "WithGRPCDialOptions" THEN Head(os).opts ELSE <<>>)
         \o Flatten(Tail(os))

\* C5: when the installed initializer returns an error, New has returned no
\* client and that error, and nothing was dialed: no dial call, no dial
\* option list, no open connection.
C5_AuthInitErrorAborts ==
  (initCalls # <<>> /\ InitializerErr(initCalls[Len(initCalls)])) =>
    /\ newPC = "returned"
    /\ result = [client |-> Nil, err |-> "initTokenSource failed"]
    /\ dialCalls = 0 /\ dialOptions = <<>>
    /\ conn = Nil /\ openConns = {} /\ connection = Nil

\* New has run with a failing initializer installed.
C5_Witness ==
  /\ newPC = "returned"
  /\ initCalls = << "Failing" >>
  /\ result.err # Nil

\* C6: with an initializer installed, it is invoked once and only once, the
\* invocation is over before newConnection starts, and the cred of the dialed
\* connection carries the token source that invocation returned.
C6_InitializerOnceBeforeDial ==
  /\ Len(initCalls) <= 1
  /\ (OptionsApplied /\ newPC # "range" /\ LastAuth(opts) # Nil) =>
       initCalls = << LastAuth(opts) >>
  /\ (dialCalls > 0 /\ LastAuth(opts) # Nil) =>
       /\ initCalls = << LastAuth(opts) >>
       /\ \E k \in 1..Len(dialOptions) :
            /\ dialOptions[k].kind = "PerRPCCredentials"
            /\ CredOf(dialOptions[k]).tokenSource = InitializerSource(LastAuth(opts))
  /\ LastAuth(opts) = Nil => initCalls = <<>>

\* New dialed with the token source of the second of two WithAuth options.
C6_Witness ==
  /\ newPC = "returned"
  /\ result.client # Nil
  /\ Len(opts) = 2 /\ opts[1] = WithAuth("PAT") /\ opts[2] = WithAuth("JWT")
  /\ initCalls = << "JWT" >>
  /\ dialOptions[2].tokenSource = "ts-JWT"

\* C7: when transportCredentials or the dial fails, New returns no client and
\* the error, and no stub exists; when NewConnection fails, NewClient returns
\* no client and the error without constructing the settings stub.
C7_ConnectionErrorAborts ==
  /\ (newPC = "returned" /\ err \in { "transportCredentials failed", "dial failed" }) =>
       /\ result = [client |-> Nil, err |-> err]
       /\ connection = Nil
       /\ \A s \in Services : built[s] = 0 /\ stubs[s] = NilStub
  /\ (ncPC = "returned" /\ ncConn = "NewConnection failed") =>
       /\ ncResult = [client |-> Nil, stub |-> NilStub, err |-> "NewConnection failed"]
       /\ ncBuilt = 0

\* New returned after a failed dial and NewClient after a failed NewConnection.
C7_Witness ==
  /\ newPC = "returned" /\ err = "dial failed" /\ dialCalls = 1
  /\ ncPC = "returned" /\ ncConn = "NewConnection failed"

\* C8: the dial options of the WithGRPCDialOptions uses accumulate: after the
\* first k options the list is the lists of those uses one after the other,
\* so after lists A then B it is every element of A followed by every
\* element of B.
C8_DialOptionsAccumulate ==
  /\ newPC = "range" =>
       options.grpcDialOptions = Flatten(SubSeq(opts, 1, i - 1))
  /\ newPC # "range" => options.grpcDialOptions = Flatten(opts)

\* Two uses with different non-empty lists have been applied.
C8_Witness ==
  /\ OptionsApplied
  /\ Len(opts) = 2
  /\ opts[1].kind = "WithGRPCDialOptions" /\ opts[2].kind = "WithGRPCDialOptions"
  /\ opts[1].opts # <<>> /\ opts[2].opts # <<>> /\ opts[1].opts # opts[2].opts
  /\ options.grpcDialOptions = opts[1].opts \o opts[2].opts

\* C9: whenever the dial is reached or a connection exists, the dial option
\* list holds the per-RPC credential option, with the token source of New,
\* present or absent.
C9_InjectorAlwaysInstalled ==
  (newPC = "dial" \/ dialCalls > 0 \/ conn # Nil) =>
    \E k \in 1..Len(dialOptions) :
      /\ dialOptions[k].kind = "PerRPCCredentials"
      /\ CredOf(dialOptions[k]).tokenSource = source

\* A connection was dialed without a token source.
C9_Witness ==
  /\ conn # Nil
  /\ source = Nil
  /\ dialOptions[2].kind = "PerRPCCredentials"

\* C10: RequireTransportSecurity of the installed cred is the TLS flag of the
\* issuer, whatever the token source: it is a function of that flag alone,
\* so clients that differ in the token source only report the same value.
C10_RequireTransportSecurityIsTLS ==
  \A k \in 1..Len(dialOptions) :
    dialOptions[k].kind = "PerRPCCredentials" =>
      RequireTransportSecurity(CredOf(dialOptions[k])) = zitadel.tls

\* A client without TLS but with a token source reports FALSE.
C10_Witness ==
  /\ conn # Nil
  /\ ~zitadel.tls
  /\ source # Nil
  /\ ~RequireTransportSecurity(CredOf(dialOptions[2]))

\* C11: a call goes out with an authorization header exactly when New got a
\* token source through WithAuth: without an installed initializer none is
\* invoked, the cred holds no token source and no call has the header; with
\* one, the header of every call that goes out is Bearer and its token.
C11_HeaderIffWithAuth ==
  /\ connection # Nil =>
       /\ InstalledCred.tokenSource = source
       /\ LastAuth(opts) = Nil => initCalls = <<>> /\ source = Nil
       /\ LastAuth(opts) # Nil => source = InitializerSource(LastAuth(opts))
  /\ \A k \in Rpcs :
       /\ rpc[k].state = "sent" =>
            rpc[k].authorization =
              IF LastAuth(opts) = Nil THEN <<>>
              ELSE << "Bearer", TokenOf(InitializerSource(LastAuth(opts))) >>
       /\ rpc[k].state # "sent" => rpc[k].authorization = <<>>

\* One client went out with Bearer tok-PAT on a call.
C11_Witness ==
  /\ opts = << WithAuth("PAT") >>
  /\ \E k \in Rpcs :
       rpc[k].state = "sent" /\ rpc[k].authorization = << "Bearer", "tok-PAT" >>

\* C12: an accessor runs, and a stub exists or is handed out, only once New
\* has returned with the connection the dial opened, and every stub is bound
\* to that connection; the stub of the settings client is bound to the
\* connection NewConnection returned.
C12_ConstructBeforeUse ==
  /\ \A t \in Callers : pc[t] # "idle" =>
       newPC = "returned" /\ connection = conn /\ connection \in openConns
  /\ \A s \in Services :
       /\ stubs[s] # NilStub => stubs[s].cc = connection /\ stubs[s].cc \in openConns
       /\ \A x \in returned[s] : x.cc = connection /\ x.cc \in openConns
  /\ ncResult.stub # NilStub => ncResult.stub.cc = "apiConn" /\ ncConn = "apiConn"

\* An accessor handed out a stub of the Client New returned, and NewClient
\* returned its settings stub.
C12_Witness ==
  /\ \E s \in Services : returned[s] = { Stub(s, "conn", 1) }
  /\ ncResult.stub = Stub("settingsService", "apiConn", 1)

C14_FetchFailureIsLocal ==
  [][ \A k \in Rpcs :
        /\ (rpc[k].state = "metadata" /\ rpc'[k].state = "failed") =>
             /\ connection' = connection /\ conn' = conn /\ openConns' = openConns
             /\ stubs' = stubs /\ once' = once /\ built' = built
             /\ source' = source /\ dialOptions' = dialOptions
             /\ \A j \in Rpcs \ {k} : rpc'[j] = rpc[j]
        /\ (rpc[k].state = "metadata" /\ rpc'[k] # rpc[k] /\ tokenOK) =>
             /\ rpc'[k].state = "sent"
             /\ source # Nil =>
                  rpc'[k].authorization = << "Bearer", TokenOf(source) >> ]_vars

\* One call failed on the token fetch, and a call started after that failure
\* went out with the header.
C14_Witness ==
  \E k, j \in Rpcs :
    /\ rpc[k].state = "failed"
    /\ rpc[j].state = "sent" /\ rpc[j].afterFail
    /\ rpc[j].authorization # <<>>

\* C15: the Client has 14 slots; when New has returned a Client and no
\* accessor has been called yet, every slot is empty and every guard unused;
\* and a slot holds a stub only if a call of its accessor has returned or is
\* past the write of the slot.
C15_LazyStubs ==
  /\ Cardinality(Services) = 14 /\ DOMAIN stubs = Services
  /\ (newPC = "returned" /\ result.client # Nil /\ \A t \in Callers : calls[t] = 0) =>
       \A s \in Services : stubs[s] = NilStub /\ once[s] = ZeroOnce /\ built[s] = 0
  /\ \A s \in Services :
       stubs[s] # NilStub =>
         \/ returned[s] # {}
         \/ \E t \in Callers : svc[t] = s /\ pc[t] \in { "storeDone", "unlock", "return" }

\* On the Client New returned, one accessor has handed out its stub and the
\* slot of another service is still empty.
C15_Witness ==
  /\ newPC = "returned" /\ result.client # Nil
  /\ \E a, b \in Services :
       /\ a # b
       /\ stubs[a] # NilStub /\ returned[a] = { stubs[a] }
       /\ stubs[b] = NilStub /\ built[b] = 0

\* C16: a step changes the slot, the guard or the construction count of a
\* service only if it is a step of a goroutine inside the accessor of that
\* service; once New has returned a Client its connection is never changed,
\* dialed again or dropped; and every stub in a slot is bound to the single
\* connection New dialed.
C16_AccessorFrame ==
  [][ /\ \A s \in Services :
           (stubs'[s] # stubs[s] \/ once'[s] # once[s] \/ built'[s] # built[s]) =>
             \E t \in Callers : svc[t] = s /\ pc[t] # "idle" /\ pc'[t] # pc[t]
      /\ result.client # Nil =>
           /\ connection' = connection /\ conn' = conn
           /\ dialCalls' = dialCalls /\ openConns' = openConns
      /\ \A s \in Services :
           stubs'[s] # NilStub =>
             stubs'[s] = Stub(s, conn', 1) /\ conn' # Nil /\ dialCalls' = 1 ]_vars

\* A goroutine has just written the slot of its service while the slot of
\* another service, populated earlier, is as it was.
C16_Witness ==
  \E t \in Callers :
    /\ pc[t] = "storeDone"
    /\ stubs[svc[t]] = Stub(svc[t], conn, 1)
    /\ \E b \in Services \ { svc[t] } : returned[b] = { Stub(b, conn, 1) }

\* C17: with a fair scheduler every accessor call returns, the calls that
\* had to wait for a construction of the same slot included.
C17_AccessorsReturn ==
  \A t \in Callers : (pc[t] # "idle") ~> (pc[t] = "idle")

\* A goroutine waits for the mutex of a slot whose stub another goroutine is
\* about to construct.
C17_Witness ==
  \E t, u \in Callers :
    /\ t # u
    /\ svc[t] = svc[u]
    /\ pc[t] = "doSlow" /\ pc[u] = "f"
    /\ once[svc[t]].m = u

\* C18: the dial option list handed to the dial starts with the built-in
\* transport credentials option, then the built-in per-RPC credentials
\* option, and then holds exactly the caller's dial options, unmodified and
\* in the order they were supplied.
C18_BuiltInsFirst ==
  (newPC = "dial" \/ dialCalls > 0) =>
    /\ Len(dialOptions) = 2 + Len(Flatten(opts))
    /\ dialOptions[1].kind = "TransportCredentials"
    /\ dialOptions[2].kind = "PerRPCCredentials"
    /\ \A k \in 1..Len(Flatten(opts)) : dialOptions[2 + k] = Flatten(opts)[k]

\* The dial was called with two different caller options after the built-in
\* ones.
C18_Witness ==
  /\ dialCalls > 0
  /\ Len(dialOptions) = 4
  /\ dialOptions[3] # dialOptions[4]
  /\ dialOptions[3].kind = "user" /\ dialOptions[4].kind = "user"

====
